---- MODULE Spec2Model ----
(***************************************************************************)
(* Chat Management API (src/assignment/scr.py): five request handlers over *)
(* one document collection and one upstream summarization endpoint.        *)
(*                                                                         *)
(* Strings that the code inspects character by character (identifiers,     *)
(* summaries) are sequences of one-character strings.  An ObjectId is the  *)
(* number its hexadecimal text denotes.  Datetimes are microsecond counts; *)
(* the collection keeps them as BSON datetimes, i.e. whole milliseconds.   *)
(* The document store itself is taken to be available: its operations do   *)
(* not raise.  The upstream endpoint may answer anything or time out.      *)
(***************************************************************************)
EXTENDS Integers, Sequences, FiniteSets, TLC

VARIABLES
    store,      \* the "chats" collection: a set of documents
    nextId,     \* number of ObjectIds generated so far
    now,        \* the wall clock, in milliseconds
    resp,       \* the latest HTTP exchange: request, status (0 while the
                \* handler is between round trips), body, I/O trace
    listReq,    \* get_user_chats between its count and its find round trip
    expected    \* history: chat_id -> chat as accepted by store_chat, dropped
                \* when a delete request naming that identifier succeeds

vars == <<store, nextId, now, resp, listReq, expected>>

-----------------------------------------------------------------------------
(* Bounds of the model *)

OidLen == 2          \* hexadecimal digits of an identifier's text
FirstOid == 10       \* the first ObjectId the driver generates
MaxChats == 2        \* store_chat requests accepted in Spec
MaxPageChats == 3    \* store_chat requests accepted in SpecPage
MaxTicks == 1        \* clock ticks, of one millisecond each
MaxPage == 3         \* largest page requested
MaxLimit == 2        \* largest small limit requested

(* Program constants *)

MsMicros == 1000     \* a BSON datetime counts milliseconds
PageGe == 1
LimitGe == 1
LimitLe == 100

-----------------------------------------------------------------------------
(* Generic helpers *)

Min(a, b) == IF a < b THEN a ELSE b
Max(a, b) == IF a > b THEN a ELSE b

None == <<>>
Some(x) == <<x>>

-----------------------------------------------------------------------------
(* bson.objectid.ObjectId *)

HexLower == <<"0", "1", "2", "3", "4", "5", "6", "7", "8", "9",
              "a", "b", "c", "d", "e", "f">>
HexUpper == <<"0", "1", "2", "3", "4", "5", "6", "7", "8", "9",
              "A", "B", "C", "D", "E", "F">>

IsHexChar(c) == \E i \in 1..16 : HexLower[i] = c \/ HexUpper[i] = c

HexVal(c) == (CHOOSE i \in 1..16 : HexLower[i] = c \/ HexUpper[i] = c) - 1

is_valid_any_length(s) == \A i \in 1..Len(s) : IsHexChar(s[i])

\* ObjectId.is_valid(s) for a str argument
ObjectId_is_valid(s) ==
    /\ Len(s) = OidLen
    /\ \A i \in 1..Len(s) : IsHexChar(s[i])

RECURSIVE HexToNat(_)
HexToNat(s) ==
    IF s = <<>> THEN 0
    ELSE 16 * HexToNat(SubSeq(s, 1, Len(s) - 1)) + HexVal(s[Len(s)])

\* ObjectId(s): the identifier a valid text denotes (either letter case)
ObjectId(s) == HexToNat(s)

RECURSIVE NatToHex(_, _)
NatToHex(n, width) ==
    IF width = 0 THEN <<>>
    ELSE Append(NatToHex(n \div 16, width - 1), HexLower[(n % 16) + 1])

\* str(oid): lower-case hexadecimal text
ObjectId_str(oid) == NatToHex(oid, OidLen)

-----------------------------------------------------------------------------
(* Request inputs *)

Users == {"u1", "u2"}

Msg1 == [sender |-> "a", text |-> "hi", timestamp |-> 2 * MsMicros]
Msg2 == [sender |-> "b", text |-> "yo", timestamp |-> 3 * MsMicros + 500]

\* no message, one message, and two messages in either order
MessageLists == {<<>>, <<Msg1>>, <<Msg1, Msg2>>, <<Msg2, Msg1>>}

ToUpper(s) ==
    [i \in 1..Len(s) |->
        IF \E k \in 1..16 : HexLower[k] = s[i]
        THEN HexUpper[CHOOSE k \in 1..16 : HexLower[k] = s[i]]
        ELSE s[i]]

\* Identifier texts of every chat Spec can create, of one more, an upper-case
\* spelling, and malformed texts: empty, too short, too long, not hexadecimal.
GeneratedIds(n) == {ObjectId_str(FirstOid + k) : k \in 0..(n - 1)}

ReqIds ==
    GeneratedIds(MaxChats + 1)
        \cup {ToUpper(ObjectId_str(FirstOid))}
        \cup { <<>>,
               Tail(ObjectId_str(FirstOid)),
               Append(ObjectId_str(FirstOid), "0"),
               [ObjectId_str(FirstOid) EXCEPT ![1] = "g"] }

Owners == {None, Some(""), Some("u1"), Some("u2")}

-----------------------------------------------------------------------------
(* The document store *)

\* BSON encoding of a datetime: whole milliseconds
BsonDatetime(t) == t - (t % MsMicros)

BsonMessage(m) == [m EXCEPT !.timestamp = BsonDatetime(m.timestamp)]

\* a document matches a filter when it agrees on every field of the filter
Matches(doc, filter) == \A k \in DOMAIN filter : doc[k] = filter[k]

FindAll(coll, filter) == coll

\* the documents of a collection that match a filter
Find(coll, filter) == {doc \in coll : Matches(doc, filter)}

count_documents(coll, filter) == Cardinality(Find(coll, filter))

\* datetime.utcnow()
utcnow == now * MsMicros

\* the error a handler's "except Exception" makes of an exception raised in
\* its try block: always status 500, the detail quoting the exception
Caught(prefix, exc) ==
    [status |-> 500, body |-> [detail |-> [prefix |-> prefix, exc |-> exc]]]

\* an exception: its class, and for an HTTPException its status code, its
\* detail text and the numbers formatted into the text
Raised(type, status_code, detail, args) ==
    [type |-> type, status_code |-> status_code, detail |-> detail, args |-> args]

HTTPException(status_code, detail) ==
    Raised("HTTPException", status_code, detail, <<>>)

Exchange(op, req, outcome, trace) ==
    [op |-> op, req |-> req, status |-> outcome.status, body |-> outcome.body,
     trace |-> trace]

\* dropping the history entries a successful delete request names
Forget(h, oid) == [c \in {d \in DOMAIN h : ObjectId(d) # oid} |-> h[c]]

-----------------------------------------------------------------------------
(* Initial state *)

NoExchange == [op |-> "none", req |-> <<>>, status |-> 0, body |-> <<>>,
               trace |-> <<>>]

Idle == [pc |-> "idle"]

Init ==
    /\ store = {}
    /\ nextId = 0
    /\ now = 0
    /\ resp = NoExchange
    /\ listReq = Idle
    /\ expected = <<>>

-----------------------------------------------------------------------------
(* Handlers *)

Tick ==
    /\ now < MaxTicks
    /\ now' = now + 1
    /\ UNCHANGED <<store, nextId, resp, listReq, expected>>

\* POST /chats
store_chat(user_id, messages) ==
    LET chat_data == [user_id |-> user_id,
                      messages |-> [i \in 1..Len(messages) |-> BsonMessage(messages[i])],
                      created_at |-> BsonDatetime(utcnow)]
        inserted_id == FirstOid + nextId
        doc == [_id |-> inserted_id,
                user_id |-> chat_data.user_id,
                messages |-> chat_data.messages,
                created_at |-> chat_data.created_at]
        chat_id == ObjectId_str(inserted_id)
    IN  /\ store' = store \cup {doc}
        /\ nextId' = nextId + 1
        /\ resp' = Exchange("store_chat",
                            [user_id |-> user_id, messages |-> messages],
                            [status |-> 200,
                             body |-> [message |-> "Chat stored successfully!",
                                       chat_id |-> chat_id]],
                            <<"insert_one">>)
        /\ expected' = (chat_id :> [user_id |-> user_id, messages |-> messages])
                           @@ expected
        /\ UNCHANGED <<now, listReq>>

\* the document as the handlers return it: _id as text
Stringified(doc) ==
    [_id |-> ObjectId_str(doc._id),
     user_id |-> doc.user_id,
     messages |-> doc.messages,
     created_at |-> doc.created_at]

\* GET /chats/{chat_id}
get_chat(chat_id) ==
    LET req == [chat_id |-> chat_id] IN
    /\ IF ~ObjectId_is_valid(chat_id)
       THEN resp' = Exchange("get_chat", req,
                             Caught("Server error",
                                    HTTPException(400, "Invalid chat ID")),
                             <<>>)
       ELSE LET found == Find(store, [_id |-> ObjectId(chat_id)]) IN
            IF found # {}
            THEN \E chat \in found :
                    resp' = Exchange("get_chat", req,
                                     [status |-> 200, body |-> Stringified(chat)],
                                     <<"find_one">>)
            ELSE resp' = Exchange("get_chat", req,
                                  Caught("Server error",
                                         HTTPException(404, "Chat not found")),
                                  <<"find_one">>)
    /\ UNCHANGED <<store, nextId, now, listReq, expected>>

-----------------------------------------------------------------------------
(* The upstream summarization endpoint *)

Summaries == { <<>>, <<"o", "k">> }

\* a well-shaped completion body
Completion(text) == [choices |-> <<[message |-> [content |-> text]]>>]

\* what client.post may do: answer with a status and a JSON body, or time out
UpstreamOutcomes ==
    {[kind |-> "response", status_code |-> 200, json |-> Completion(s)] : s \in Summaries}
        \cup {[kind |-> "response", status_code |-> 200, json |-> j] :
                j \in { [error |-> "overloaded"],
                        [choices |-> <<>>],
                        [choices |-> <<[index |-> 0]>>],
                        [choices |-> <<[message |-> [role |-> "assistant"]]>>] }}
        \cup {[kind |-> "response", status_code |-> c, json |-> j] :
                c \in {429}, j \in {Completion(<<"o", "k">>), [error |-> "overloaded"]}}
        \cup {[kind |-> "timeout"]}

\* response.json()["choices"][0]["message"]["content"]: the text, or the
\* KeyError / IndexError the subscripting raises
ContentOrDefault(json) ==
    IF /\ "choices" \in DOMAIN json
       /\ Len(json.choices) > 0
       /\ "message" \in DOMAIN json.choices[1]
       /\ "content" \in DOMAIN json.choices[1].message
    THEN [ok |-> TRUE, value |-> json.choices[1].message.content]
    ELSE [ok |-> TRUE, value |-> <<>>]

Content(json) ==
    IF "choices" \notin DOMAIN json THEN [ok |-> FALSE, error |-> "KeyError"]
    ELSE IF Len(json.choices) = 0 THEN [ok |-> FALSE, error |-> "IndexError"]
    ELSE IF "message" \notin DOMAIN json.choices[1]
         THEN [ok |-> FALSE, error |-> "KeyError"]
    ELSE IF "content" \notin DOMAIN json.choices[1].message
         THEN [ok |-> FALSE, error |-> "KeyError"]
    ELSE [ok |-> TRUE, value |-> json.choices[1].message.content]

\* POST /chats/summarize?conversation_id=
summarize_chat(conversation_id, upstream) ==
    LET req == [conversation_id |-> conversation_id] IN
    /\ IF ~ObjectId_is_valid(conversation_id)
       THEN resp' = Exchange("summarize_chat", req,
                             Caught("Summarization error",
                                    HTTPException(400, "Invalid conversation ID")),
                             <<>>)
       ELSE LET found == Find(store, [_id |-> ObjectId(conversation_id)])
                sent == [conversation_id |-> conversation_id, upstream |-> upstream]
            IN
            IF found = {}
            THEN resp' = Exchange("summarize_chat", req,
                                  Caught("Summarization error",
                                         HTTPException(404, "Chat not found")),
                                  <<"find_one">>)
            ELSE IF upstream.kind = "timeout"
            THEN resp' = Exchange("summarize_chat", sent,
                                  Caught("Summarization error",
                                         Raised("TimeoutException", 0, "", <<>>)),
                                  <<"find_one", "post">>)
            ELSE IF upstream.status_code # 200
            THEN resp' = Exchange("summarize_chat", sent,
                                  Caught("Summarization error",
                                         Raised("HTTPException", 500,
                                                "Summarization failed",
                                                <<upstream.status_code>>)),
                                  <<"find_one", "post">>)
            ELSE LET summary == Content(upstream.json) IN
                 IF ~summary.ok
                 THEN resp' = Exchange("summarize_chat", sent,
                                       Caught("Summarization error",
                                              Raised(summary.error, 0, "", <<>>)),
                                       <<"find_one", "post">>)
                 ELSE resp' = Exchange("summarize_chat", sent,
                                       [status |-> 200,
                                        body |-> [conversation_id |-> conversation_id,
                                                  summary |-> summary.value,
                                                  summary_length |-> Len(summary.value)]],
                                       <<"find_one", "post">>)
    /\ UNCHANGED <<store, nextId, now, listReq, expected>>

\* DELETE /chats/{conversation_id}?user_id=
delete_query(conversation_id, user_id) ==
    IF user_id # None /\ user_id[1] # ""
    THEN [_id |-> ObjectId(conversation_id), user_id |-> user_id[1]]
    ELSE [_id |-> ObjectId(conversation_id)]

\* collection.delete_one(filter): the collections it may leave, each with
\* its deleted_count
delete_any_one(coll, filter) ==
    IF coll = {}
    THEN {[coll |-> coll, deleted_count |-> 0]}
    ELSE {[coll |-> coll \ {doc}, deleted_count |-> 1] : doc \in coll}

delete_one(coll, filter) ==
    IF Find(coll, filter) = {}
    THEN {[coll |-> coll, deleted_count |-> 0]}
    ELSE {[coll |-> coll \ {doc}, deleted_count |-> 1] : doc \in Find(coll, filter)}

delete_chat(conversation_id, user_id) ==
    LET req == [conversation_id |-> conversation_id, user_id |-> user_id] IN
    IF ~ObjectId_is_valid(conversation_id)
    THEN /\ resp' = Exchange("delete_chat", req,
                             Caught("Error deleting chat",
                                    HTTPException(400, "Invalid chat ID")),
                             <<>>)
         /\ UNCHANGED <<store, nextId, now, listReq, expected>>
    ELSE /\ \E result \in delete_one(store, delete_query(conversation_id, user_id)) :
             /\ store' = result.coll
             /\ IF result.deleted_count = 0
                THEN resp' = Exchange("delete_chat", req,
                                Caught("Error deleting chat",
                                       HTTPException(404,
                                          IF user_id # None /\ user_id[1] # ""
                                          THEN "Chat not found or not associated with the specified user"
                                          ELSE "Chat not found")),
                                <<"delete_one">>)
                ELSE resp' = Exchange("delete_chat", req,
                                [status |-> 200,
                                 body |-> [message |-> "Chat deleted successfully!",
                                           deleted_count |-> result.deleted_count]],
                                <<"delete_one">>)
         /\ expected' = IF resp'.status = 200
                         THEN Forget(expected, ObjectId(conversation_id))
                         ELSE expected
         /\ UNCHANGED <<nextId, now, listReq>>

-----------------------------------------------------------------------------
(* GET /users/{user_id}/chats?page=&limit= *)

floor_div(a, b) == a \div b

\* math.ceil(a / b) for a >= 0, b >= 1
ceil_div(a, b) == IF a % b = 0 THEN a \div b ELSE (a \div b) + 1

\* the orders a sort on created_at, descending, may produce: documents with
\* equal created_at come in any order
SortedDesc(docs) ==
    {s \in [1..Cardinality(docs) -> docs] :
        /\ \A i, j \in DOMAIN s : i # j => s[i] # s[j]
        /\ \A i, j \in DOMAIN s : i < j => s[i].created_at >= s[j].created_at}

Skip(s, n) == SubSeq(s, n + 1, Len(s))
NoLimit(s, n) == s
Limit(s, n) == SubSeq(s, 1, Min(n, Len(s)))

\* documents in the order of their insertion
RECURSIVE NaturalOrder(_)
NaturalOrder(docs) ==
    IF docs = {} THEN <<>>
    ELSE LET first == CHOOSE d \in docs : \A e \in docs : d._id <= e._id
         IN  <<first>> \o NaturalOrder(docs \ {first})

SeqRange(s) == {s[i] : i \in DOMAIN s}

SkipLimitThenSort(coll, filter, skip, limit) ==
    SortedDesc(SeqRange(Limit(Skip(NaturalOrder(Find(coll, filter)), skip), limit)))

\* a cursor applies its sort first, then its skip, then its limit, in
\* whatever order the calls were chained
CursorResults(coll, filter, skip, limit) ==
    {Limit(Skip(s, skip), limit) : s \in SortedDesc(Find(coll, filter))}

\* the Query(ge=, le=) constraints, then the count round trip and the page check
get_user_chats_count(user_id, page, limit) ==
    LET req == [user_id |-> user_id, page |-> page, limit |-> limit] IN
    /\ listReq.pc = "idle"
    /\ IF page < PageGe \/ limit < LimitGe \/ limit > LimitLe
       THEN /\ resp' = Exchange("get_user_chats", req,
                                [status |-> 422,
                                 body |-> [detail |->
                                    [prefix |-> "Unprocessable",
                                     exc |-> Raised("RequestValidationError", 422,
                                                    "Query constraint", <<>>)]]],
                                <<>>)
            /\ listReq' = listReq
       ELSE LET total_chats == count_documents(store, [user_id |-> user_id])
                total_pages == ceil_div(total_chats, limit)
            IN  IF page > total_pages /\ total_pages > 0
                THEN /\ resp' = Exchange("get_user_chats", req,
                                    Caught("Error retrieving chats",
                                           Raised("HTTPException", 404,
                                                  "Page does not exist",
                                                  <<page, total_pages>>)),
                                    <<"count_documents">>)
                     /\ listReq' = listReq
                ELSE /\ listReq' = [pc |-> "counted", req |-> req,
                                    total_chats |-> total_chats,
                                    total_pages |-> total_pages]
                     /\ resp' = Exchange("get_user_chats", req,
                                         [status |-> 0, body |-> <<>>],
                                         <<"count_documents">>)
    /\ UNCHANGED <<store, nextId, now, expected>>

\* the find round trip and the response
get_user_chats_find ==
    /\ listReq.pc = "counted"
    /\ \E chats \in CursorResults(store, [user_id |-> listReq.req.user_id],
                                  (listReq.req.page - 1) * listReq.req.limit,
                                  listReq.req.limit) :
          resp' = Exchange("get_user_chats", listReq.req,
                           [status |-> 200,
                            body |-> [user_id |-> listReq.req.user_id,
                                      chats |-> [i \in 1..Len(chats) |-> Stringified(chats[i])],
                                      page |-> listReq.req.page,
                                      limit |-> listReq.req.limit,
                                      total_chats |-> listReq.total_chats,
                                      total_pages |-> listReq.total_pages]],
                           <<"count_documents", "find">>)
    /\ listReq' = Idle
    /\ UNCHANGED <<store, nextId, now, expected>>

-----------------------------------------------------------------------------
(* Spec: the identifier-taking handlers and store_chat, one request at a   *)
(* time (each makes one store round trip, or one before its upstream call) *)

Next ==
    \/ \E u \in Users, m \in MessageLists : nextId < MaxChats /\ store_chat(u, m)
    \/ \E id \in ReqIds : get_chat(id)
    \/ \E id \in ReqIds, up \in UpstreamOutcomes : summarize_chat(id, up)
    \/ \E id \in ReqIds, o \in Owners : delete_chat(id, o)

Spec == Init /\ [][Next]_vars

(* SpecPage: get_user_chats, with store_chat and delete_chat requests taking *)
(* effect at any time, also between its two round trips                      *)

Pages == 0..MaxPage
Limits == (0..MaxLimit) \cup {LimitLe, LimitLe + 1}

NextPage ==
    \/ Tick
    \/ \E u \in Users : nextId < MaxPageChats /\ store_chat(u, <<Msg1>>)
    \/ \E id \in GeneratedIds(MaxPageChats) : delete_chat(id, None)
    \/ \E u \in Users, p \in Pages, l \in Limits : get_user_chats_count(u, p, l)
    \/ get_user_chats_find

SpecPage == Init /\ [][NextPage]_vars

-----------------------------------------------------------------------------
(* Vocabulary of the properties *)

HexChars == {"0", "1", "2", "3", "4", "5", "6", "7", "8", "9",
             "a", "b", "c", "d", "e", "f", "A", "B", "C", "D", "E", "F"}

\* a well-formed identifier: exactly OidLen hexadecimal characters
WellFormed(id) == Len(id) = OidLen /\ \A i \in 1..Len(id) : id[i] \in HexChars

\* the stored chats an identifier text names
Named(id) == {d \in store : d._id = ObjectId(id)}

ChatsOf(u) == {d \in store : d.user_id = u}

\* the steps that serve a request; the request served is the one resp' or
\* listReq' records
GetStep == resp'.op = "get_chat" /\ get_chat(resp'.req.chat_id)

SummarizeStep ==
    /\ resp'.op = "summarize_chat"
    /\ \E up \in (IF "upstream" \in DOMAIN resp'.req
                  THEN {resp'.req.upstream} ELSE UpstreamOutcomes) :
          summarize_chat(resp'.req.conversation_id, up)

DeleteStep ==
    /\ resp'.op = "delete_chat"
    /\ delete_chat(resp'.req.conversation_id, resp'.req.user_id)

IdStep == GetStep \/ SummarizeStep \/ DeleteStep

\* the identifier text of the request an IdStep serves
IdOf(r) == IF r.op = "get_chat" THEN r.req.chat_id ELSE r.req.conversation_id

CountStep ==
    /\ listReq.pc = "idle"
    /\ resp'.op = "get_user_chats"
    /\ get_user_chats_count(resp'.req.user_id, resp'.req.page, resp'.req.limit)

\* the request a CountStep serves
CountReq == resp'.req

\* C1: in get_chat, summarize_chat and delete_chat a malformed identifier
\* ends with status 400, and a well-formed identifier of no stored chat ends
\* with status 404; neither ends with 500.
C1_IdentifierStatuses ==
    [][IdStep =>
          LET id == IdOf(resp') IN
          /\ ~WellFormed(id) => resp'.status = 400
          /\ (WellFormed(id) /\ Named(id) = {}) => resp'.status = 404]_vars

\* C2: with page >= 1 and 1 <= limit <= 100, a page beyond a positive
\* total_pages ends with status 404, and for a user without chats every page
\* succeeds with an empty list, total_chats = 0 and total_pages = 0.
C2_PageOutOfRange ==
    [][/\ (CountStep /\ CountReq.page >= 1 /\ CountReq.limit >= 1
              /\ CountReq.limit <= 100) =>
                LET n == Cardinality(ChatsOf(CountReq.user_id)) IN
                /\ (n > 0 /\ (CountReq.page - 1) * CountReq.limit >= n) =>
                      resp'.status = 404
                /\ n = 0 => listReq'.pc = "counted"
       /\ (get_user_chats_find /\ listReq.total_chats = 0
              /\ ChatsOf(listReq.req.user_id) = {}) =>
                /\ resp'.status = 200
                /\ resp'.body.chats = <<>>
                /\ resp'.body.total_chats = 0
                /\ resp'.body.total_pages = 0]_vars

\* C3: delete_chat with a supplied owner_id (the empty string included) that
\* differs from the chat's user_id leaves the store as it was and reports
\* not-found; a record is removed only when the owner_id equals its user_id.
C3_OwnerMismatchKeepsChat ==
    [][(DeleteStep /\ WellFormed(IdOf(resp')) /\ resp'.req.user_id # None) =>
          LET id == IdOf(resp')
              owner_id == resp'.req.user_id[1]
          IN  /\ \A d \in Named(id) :
                    d.user_id # owner_id => (store' = store /\ resp'.status = 404)
              /\ \A d \in store \ store' : d.user_id = owner_id]_vars

\* C4: delete_chat without owner_id on the well-formed id of an existing chat
\* removes exactly that chat and answers deleted_count = 1; no delete_chat
\* removes more than one record.
C4_DeleteRemovesExactlyOne ==
    [][DeleteStep =>
          LET id == IdOf(resp') IN
          /\ store' \subseteq store
          /\ Cardinality(store \ store') <= 1
          /\ (resp'.req.user_id = None /\ WellFormed(id) /\ Named(id) # {}) =>
                /\ store' = store \ Named(id)
                /\ Cardinality(Named(id)) = 1
                /\ resp'.status = 200
                /\ resp'.body.deleted_count = 1]_vars

C4_Witness ==
    /\ resp.op = "delete_chat"
    /\ resp.req.user_id = None
    /\ resp.status = 200
    /\ resp.body.deleted_count = 1
    /\ store # {}

\* the listings of a user's chats, newest first
NewestFirst(u) ==
    {s \in [1..Cardinality(ChatsOf(u)) -> ChatsOf(u)] :
        /\ \A d \in ChatsOf(u) : \E i \in DOMAIN s : s[i] = d
        /\ \A i \in DOMAIN s : i > 1 => s[i - 1].created_at >= s[i].created_at}

\* C5: a successful get_user_chats returns exactly positions (page-1)*limit
\* to (page-1)*limit + limit - 1 of the requested user's stored chats taken
\* newest first: no other user's chat, and at most limit chats.
C5_PageWindow ==
    [][get_user_chats_find =>
          LET u == listReq.req.user_id
              l == listReq.req.limit
              first == (listReq.req.page - 1) * l
              chats == resp'.body.chats
          IN  /\ resp'.status = 200
              /\ Len(chats) <= l
              /\ \A i \in 1..Len(chats) : chats[i].user_id = u
              /\ \E all \in NewestFirst(u) :
                    /\ Len(chats) = Min(l, Max(0, Len(all) - first))
                    /\ \A i \in 1..Len(chats) :
                          /\ HexToNat(chats[i]._id) = all[first + i]._id
                          /\ chats[i].created_at = all[first + i].created_at
                          /\ chats[i].messages = all[first + i].messages]_vars

\* three chats, page 2 of limit 2: the one oldest chat
C5_Witness ==
    /\ resp.op = "get_user_chats"
    /\ resp.status = 200
    /\ resp.req.page = 2
    /\ resp.req.limit = 2
    /\ resp.body.total_chats = 3
    /\ Len(resp.body.chats) = 1
    /\ Cardinality(ChatsOf(resp.req.user_id)) = 3
    /\ \A d \in ChatsOf(resp.req.user_id) :
          d.created_at >= resp.body.chats[1].created_at

\* C6: total_chats is the number of stored chats of the requested user (at
\* the count), and total_pages = ceil(total_chats / limit), which is 0
\* exactly when total_chats = 0.
C6_Totals ==
    [][/\ (CountStep /\ listReq'.pc = "counted") =>
                listReq'.total_chats = Cardinality(ChatsOf(listReq'.req.user_id))
       /\ get_user_chats_find =>
            LET n == resp'.body.total_chats
                tp == resp'.body.total_pages
                l == resp'.body.limit
            IN  /\ n = listReq.total_chats
                /\ l = listReq.req.limit
                /\ l >= 1 /\ l <= 100
                /\ tp * l >= n
                /\ (tp - 1) * l < n
                /\ (tp = 0) <=> (n = 0)]_vars

\* a last page that is not full, and a limit larger than the total
C6_Witness ==
    /\ resp.op = "get_user_chats"
    /\ resp.status = 200
    /\ resp.body.total_chats = 3
    /\ resp.body.limit = 2
    /\ resp.body.total_pages = 2

\* C7 as claimed: a get_chat with the chat_id store_chat returned, no delete
\* of that id having succeeded in between, returns the same user_id, the same messages in the
\* same order, and _id equal to the chat_id.
C7_RoundTripExact ==
    (resp.op = "get_chat" /\ resp.req.chat_id \in DOMAIN expected) =>
        /\ resp.status = 200
        /\ resp.body._id = resp.req.chat_id
        /\ resp.body.user_id = expected[resp.req.chat_id].user_id
        /\ resp.body.messages = expected[resp.req.chat_id].messages

\* C7 as amended: the same user_id and _id, and the same messages in the
\* same order with sender and text unchanged and each timestamp cut to the
\* whole millisecond.
C7_RoundTripToMillisecond ==
    (resp.op = "get_chat" /\ resp.req.chat_id \in DOMAIN expected) =>
        LET given == expected[resp.req.chat_id].messages
            got == resp.body.messages
        IN  /\ resp.status = 200
            /\ resp.body._id = resp.req.chat_id
            /\ resp.body.user_id = expected[resp.req.chat_id].user_id
            /\ Len(got) = Len(given)
            /\ \A i \in 1..Len(given) :
                  /\ got[i].sender = given[i].sender
                  /\ got[i].text = given[i].text
                  /\ got[i].timestamp <= given[i].timestamp
                  /\ given[i].timestamp - got[i].timestamp < MsMicros
                  /\ got[i].timestamp % MsMicros = 0

\* two messages in the order given, after another chat was stored
C7_Witness ==
    /\ resp.op = "get_chat"
    /\ resp.req.chat_id \in DOMAIN expected
    /\ resp.status = 200
    /\ Len(resp.body.messages) = 2
    /\ resp.body.messages[1].text = "yo"
    /\ resp.body.messages[2].text = "hi"
    /\ Cardinality(store) = 2

\* an upstream answer that is not a usable completion
UpstreamFailed(up) ==
    /\ up.kind = "response"
    /\ \/ up.status_code # 200
       \/ up.json \notin {Completion(s) : s \in Summaries}

\* C8: summarize_chat on an existing chat whose upstream call answers
\* non-200, or 200 without the expected fields, ends with status 500 and a
\* summarization-failure message, carries no summary, has issued one upstream
\* request, and leaves the store unchanged.
C8_UpstreamFailure ==
    [][(SummarizeStep /\ WellFormed(IdOf(resp')) /\ Named(IdOf(resp')) # {}
           /\ UpstreamFailed(resp'.req.upstream)) =>
                /\ resp'.status = 500
                /\ resp'.body.detail.prefix = "Summarization error"
                /\ "summary" \notin DOMAIN resp'.body
                /\ Cardinality({i \in DOMAIN resp'.trace : resp'.trace[i] = "post"}) = 1
                /\ store' = store]_vars

C8_Witness ==
    /\ resp.op = "summarize_chat"
    /\ resp.status = 500
    /\ resp.trace = <<"find_one", "post">>
    /\ resp.req.upstream.kind = "response"
    /\ resp.req.upstream.status_code = 200
    /\ "choices" \notin DOMAIN resp.req.upstream.json

\* C9: in get_chat, summarize_chat and delete_chat a malformed identifier is
\* rejected before any store operation and any upstream call, and the store
\* is left unchanged.
C9_ValidationFirst ==
    [][(IdStep /\ ~WellFormed(IdOf(resp'))) =>
          /\ resp'.trace = <<>>
          /\ store' = store]_vars

C9_Witness ==
    /\ resp.op = "delete_chat"
    /\ ~WellFormed(resp.req.conversation_id)
    /\ Len(resp.req.conversation_id) = OidLen - 1
    /\ resp.trace = <<>>
    /\ store # {}

\* C10 as claimed: every successful get_user_chats response is consistent in
\* itself: it returns min(limit, max(0, total_chats - (page-1)*limit)) chats
\* for the total_chats it reports.
C10_SelfConsistent ==
    (resp.op = "get_user_chats" /\ resp.status = 200) =>
        Len(resp.body.chats) =
            Min(resp.body.limit,
                Max(0, resp.body.total_chats - (resp.body.page - 1) * resp.body.limit))

\* C10 as amended: it returns min(limit, max(0, n - (page-1)*limit)) chats
\* for the number n of the user's chats in the store at the find, which is
\* the total_chats reported whenever that number has not changed since the
\* count.
C10_ConsistentWithFind ==
    [][get_user_chats_find =>
          LET n == Cardinality(ChatsOf(listReq.req.user_id))
              l == resp'.body.limit
              p == resp'.body.page
          IN  /\ resp'.status = 200
              /\ l = listReq.req.limit /\ p = listReq.req.page
              /\ Len(resp'.body.chats) = Min(l, Max(0, n - (p - 1) * l))
              /\ n = resp'.body.total_chats =>
                    Len(resp'.body.chats) =
                        Min(l, Max(0, resp'.body.total_chats - (p - 1) * l))]_vars

\* a response whose list is not the length its own total_chats gives
C10_Witness ==
    /\ resp.op = "get_user_chats"
    /\ resp.status = 200
    /\ Len(resp.body.chats) #
          Min(resp.body.limit,
              Max(0, resp.body.total_chats - (resp.body.page - 1) * resp.body.limit))

====
